---- MODULE Spec2Model ----
(***************************************************************************)
(* Model of src/openflexure-server.py: the tool endpoints move_stage,       *)
(* run_z_stack and call_extension of the OpenFlexure adapter, and the       *)
(* microscope they drive.                                                   *)
(*                                                                          *)
(* The microscope client (openflexure_microscope_client) is an external     *)
(* library.  It is modelled by what the adapter relies on: `position` reads *)
(* the stage, move(d) sets the axes named in d, move_rel(d) adds to them,   *)
(* grab_image/capture_image leave the stage alone, and every call may raise.*)
(* A move that raises may or may not have moved the stage.                  *)
(*                                                                          *)
(* Each device call of a handler is one step, so that two handlers sharing  *)
(* the connection can interleave between calls.                             *)
(***************************************************************************)
EXTENDS Integers, Sequences, FiniteSets, TLC

\* ---- bounds of the model ------------------------------------------------
MaxXY == 1
MaxZ == 2
MaxDepth == 1
MaxSteps == 3

VARIABLES pos, mv, zs, ce, extensions, served

vars == <<pos, mv, zs, ce, extensions, served>>

\* ---- values ---------------------------------------------------------------
Axes == {"x", "y", "z"}

\* Optional[int]: None is the empty tuple, a given value v is <<v>>.
None == <<>>

Some(v) == <<v>>

XYRange == 0..MaxXY

ZRange == (0 - MaxDepth)..MaxZ

AxisRange(a) == IF a = "z" THEN ZRange ELSE XYRange

Positions == [x : XYRange, y : XYRange, z : ZRange]

Opt(S) == {None} \cup {Some(v) : v \in S}

StepCounts == (0 - 1)..MaxSteps

\* The empty dict {}; also the argument list of a call that takes none.
Unset == [a \in {} |-> 0]

\* ---- the device (external client) --------------------------------------
\* microscope.move(d): the axes named in d go to d's values.
DeviceMove(p, d) == [a \in Axes |-> IF a \in DOMAIN d THEN d[a] ELSE p[a]]

\* microscope.move_rel(d): the axes named in d are displaced by d's values.
DeviceMoveRel(p, d) == [a \in Axes |-> IF a \in DOMAIN d THEN p[a] + d[a] ELSE p[a]]

\* The stage's travel: a move leaving it is refused by the device.
InRange(p) == \A a \in Axes : p[a] \in AxisRange(a)

\* One entry of a handler's record of the device calls it made.
Call(op, arg) == [op |-> op, arg |-> arg]

\* ---- move_stage ---------------------------------------------------------
\* Variant: a key for every axis, 0 where the argument is None.
BuildPositionAll(x, y, z) ==
    [a \in Axes |-> IF a = "x" THEN (IF x # None THEN x[1] ELSE 0)
                    ELSE IF a = "y" THEN (IF y # None THEN y[1] ELSE 0)
                    ELSE (IF z # None THEN z[1] ELSE 0)]

\* position = {} plus one key per axis that is not None.
BuildPosition(x, y, z) ==
    LET given == {a \in Axes : (a = "x" /\ x # None) \/ (a = "y" /\ y # None)
                               \/ (a = "z" /\ z # None)}
    IN  [a \in given |-> IF a = "x" THEN x[1] ELSE IF a = "y" THEN y[1] ELSE z[1]]

\* Variant: the empty dict is not noticed.
IsEmptyDictNever(d) == FALSE

\* `if not position`: the dict is empty.
IsEmptyDict(d) == DOMAIN d = {}

\* The Delta line of the report: after - before on each axis.
Delta(after, before) == [a \in Axes |-> after[a] - before[a]]

\* The method move_stage picks: move_rel when relative, else move.
MoveOp(relative) == IF relative THEN "move_rel" ELSE "move"

\* The origin; it also fills position-valued locals before their assignment.
ZeroPos == [x |-> 0, y |-> 0, z |-> 0]

\* move_stage's frame: its arguments and locals, where it stands (pc), what
\* it returned (result), and for the properties the device calls it made
\* (cmds), the stage on entry (entry_pos) and just before and after its own
\* command (pre_cmd, moved_to).
MvInit ==
    [pc |-> "idle", x |-> None, y |-> None, z |-> None, relative |-> FALSE,
     position |-> Unset, before_pos |-> ZeroPos, after_pos |-> ZeroPos,
     delta |-> ZeroPos, result |-> "none", cmds |-> <<>>,
     entry_pos |-> ZeroPos, pre_cmd |-> ZeroPos, moved_to |-> ZeroPos]

\* A handler whose report (or exception) is ready for the hosting framework.
Ended == {"done", "failed"}

\* ---- run_z_stack --------------------------------------------------------
\* z_step as the exact fraction num/den; den = 0 is Python's ZeroDivisionError.
\* Python computes it in double precision, which gives the same int(...) as
\* the exact fraction for every input within the bounds above.
ZStep(start_z, end_z, steps) ==
    IF steps > 1 THEN [num |-> end_z - start_z, den |-> steps - 1]
    ELSE [num |-> 0, den |-> 1]

\* int(q) for q = n/d with d > 0: truncation toward zero.
Trunc(n, d) == IF n >= 0 THEN n \div d ELSE 0 - ((0 - n) \div d)

\* Variant: the sum is rounded down (//) instead of truncated (int).
CurrentZFloor(start_z, i, step) ==
    (start_z * step.den + i * step.num) \div step.den

\* int(start_z + i * z_step): the sum is truncated, not the product.
CurrentZ(start_z, i, step) == Trunc(start_z * step.den + i * step.num, step.den)

\* Variant: a fresh dict that keeps z only.
WithZDropXY(p, z) == [x |-> 0, y |-> 0, z |-> z]

\* new_pos = start_pos.copy(); new_pos['z'] = start_z
WithZ(p, z) == [p EXCEPT !.z = z]

\* Variant: range(steps + 1).
LoopRunsInclusive(i, steps) == i <= steps

\* range(steps) is empty for steps <= 0.
LoopRuns(i, steps) == i < steps

\* The capture call of the stack loop.
StackCapture == "grab_image"

\* run_z_stack's frame: arguments, locals, pc and result; for the properties
\* the device calls it made (cmds) and the call that raised (failed_at).
ZsInit ==
    [pc |-> "idle", start_z |-> 0, end_z |-> 0, steps |-> 0,
     z_step |-> [num |-> 0, den |-> 1], start_pos |-> ZeroPos, new_pos |-> ZeroPos,
     i |-> 0, actual_pos |-> ZeroPos, captured_positions |-> <<>>,
     result |-> "none", current |-> ZeroPos, cmds |-> <<>>, failed_at |-> "none"]

\* ---- call_extension -----------------------------------------------------
\* Strings that are inspected character by character are tuples of characters.
UpperCase == <<"A", "B", "C", "D", "E", "F", "G", "H", "I", "J", "K", "L", "M",
               "N", "O", "P", "Q", "R", "S", "T", "U", "V", "W", "X", "Y", "Z">>

LowerCase == <<"a", "b", "c", "d", "e", "f", "g", "h", "i", "j", "k", "l", "m",
               "n", "o", "p", "q", "r", "s", "t", "u", "v", "w", "x", "y", "z">>

LowerChar(c) ==
    IF \E k \in DOMAIN UpperCase : UpperCase[k] = c
    THEN LowerCase[CHOOSE k \in DOMAIN UpperCase : UpperCase[k] = c]
    ELSE c

\* Variant: the method is compared as given.
LowerIdentity(m) == m

\* method.lower()
Lower(m) == [k \in DOMAIN m |-> LowerChar(m[k])]

GetWord == <<"g", "e", "t">>

PostWord == <<"p", "o", "s", "t">>

\* The registry the client discovered: extension id -> its link names.
KnownExtensions == {"org.openflexure.microscope", "org.openflexure.autofocus"}

KnownLinks == {"device-info", "fast_autofocus"}

Registries ==
    UNION {[ids -> SUBSET KnownLinks] : ids \in SUBSET KnownExtensions}

\* payload: Optional[Dict]; a given dict d is <<d>>.
Payloads == {None, Some(Unset), Some([dz |-> 1])}

\* `if payload is None: payload = {}`
PostedPayload(payload) == IF payload = None THEN Unset ELSE payload[1]

\* One invocation of a link endpoint.
LinkCall(op, ext, link, arg) == [op |-> op, ext |-> ext, link |-> link, arg |-> arg]

\* call_extension's frame: its arguments, what it returned (result and the
\* listing in it), the endpoint calls it made, and whether one raised.
CeInit ==
    [result |-> "none", listing |-> {}, calls |-> <<>>,
     extension_name |-> "", link_name |-> "", method |-> <<>>, payload |-> None,
     endpoint_raised |-> FALSE]

\* Variant: the dispatch without its try/except.
DispatchUncaught(ext, link, method, payload, raises) ==
    IF Lower(method) = GetWord
    THEN [result |-> IF raises THEN "exception" ELSE "success",
          calls |-> <<LinkCall("get", ext, link, Unset)>>]
    ELSE IF Lower(method) = PostWord
    THEN [result |-> IF raises THEN "exception" ELSE "success",
          calls |-> <<LinkCall("post_json", ext, link, PostedPayload(payload))>>]
    ELSE [result |-> "unknown_method", calls |-> <<>>]

\* try: ... except Exception as e: return "Error calling extension: ..."
\* `raises` is an Exception out of the endpoint call.
Dispatch(ext, link, method, payload, raises) ==
    IF Lower(method) = GetWord
    THEN [result |-> IF raises THEN "error_calling_extension" ELSE "success",
          calls |-> <<LinkCall("get", ext, link, Unset)>>]
    ELSE IF Lower(method) = PostWord
    THEN [result |-> IF raises THEN "error_calling_extension" ELSE "success",
          calls |-> <<LinkCall("post_json", ext, link, PostedPayload(payload))>>]
    ELSE [result |-> "unknown_method", calls |-> <<>>]

\* Variant: the method selector is checked first.
RespondMethodFirst(reg, ext, link, method, payload, raises) ==
    IF Lower(method) # GetWord /\ Lower(method) # PostWord
    THEN [result |-> "unknown_method", listing |-> {}, calls |-> <<>>]
    ELSE IF ext \notin DOMAIN reg
    THEN [result |-> "extension_not_found", listing |-> DOMAIN reg, calls |-> <<>>]
    ELSE IF link \notin reg[ext]
    THEN [result |-> "link_not_found", listing |-> reg[ext], calls |-> <<>>]
    ELSE LET d == Dispatch(ext, link, method, payload, raises)
         IN  [result |-> d.result, listing |-> {}, calls |-> d.calls]

\* The handler's checks in their order: extension, link, then the dispatch.
Respond(reg, ext, link, method, payload, raises) ==
    IF ext \notin DOMAIN reg
    THEN [result |-> "extension_not_found", listing |-> DOMAIN reg, calls |-> <<>>]
    ELSE IF link \notin reg[ext]
    THEN [result |-> "link_not_found", listing |-> reg[ext], calls |-> <<>>]
    ELSE LET d == Dispatch(ext, link, method, payload, raises)
         IN  [result |-> d.result, listing |-> {}, calls |-> d.calls]

\* call_extension, start to return; `raises` is whether the endpoint raises.
CallExtension(ext, link, method, payload, raises) ==
    /\ ce.result = "none"
    /\ LET r == Respond(extensions, ext, link, method, payload, raises)
       IN  ce' = [result |-> r.result, listing |-> r.listing, calls |-> r.calls,
                  extension_name |-> ext, link_name |-> link, method |-> method,
                  payload |-> payload,
                  endpoint_raised |-> raises /\ r.calls # <<>>]
    /\ UNCHANGED <<pos, mv, zs, extensions, served>>

\* The text goes to the framework; the frame is gone.
CallExtensionReturn ==
    /\ ce.result # "none"
    /\ ce' = CeInit
    /\ UNCHANGED <<pos, mv, zs, extensions, served>>

\* ---- handlers: move_stage -----------------------------------------------
\* Variant: move_stage waits for the connection while a stack is running.
MoveStageCallLocked(serial, x, y, z, relative) ==
    /\ mv.pc = "idle"
    /\ zs.pc = "idle"
    /\ LET position == BuildPosition(x, y, z)
       IN  mv' = [MvInit EXCEPT !.x = x, !.y = y, !.z = z, !.relative = relative,
                      !.position = position, !.entry_pos = pos,
                      !.pc = IF IsEmptyDict(position) THEN "done" ELSE "read_before",
                      !.result = IF IsEmptyDict(position) THEN "no_position" ELSE "none"]
    /\ UNCHANGED <<pos, zs, ce, extensions>>

\* `serial` is the hosting framework's promise to run one request at a time;
\* the handler itself takes no lock.  Which requests arrive (`served`) is the
\* specification's business, not the handler's.
MoveStageCall(serial, x, y, z, relative) ==
    /\ mv.pc = "idle"
    /\ serial => zs.pc = "idle"
    /\ LET position == BuildPosition(x, y, z)
       IN  mv' = [MvInit EXCEPT !.x = x, !.y = y, !.z = z, !.relative = relative,
                      !.position = position, !.entry_pos = pos,
                      !.pc = IF IsEmptyDict(position) THEN "done" ELSE "read_before",
                      !.result = IF IsEmptyDict(position) THEN "no_position" ELSE "none"]
    /\ UNCHANGED <<pos, zs, ce, extensions>>

\* before_pos = microscope.position.copy()
MoveStageReadBefore ==
    /\ mv.pc = "read_before"
    /\ mv' = [mv EXCEPT !.before_pos = pos, !.pc = "command",
                        !.cmds = Append(@, Call("position", Unset))]
    /\ UNCHANGED <<pos, zs, ce, extensions, served>>

\* Where the handler's command takes the stage.
MoveTarget == IF mv.relative THEN DeviceMoveRel(pos, mv.position)
              ELSE DeviceMove(pos, mv.position)

\* microscope.move_rel(position) / microscope.move(position)
MoveStageCommand ==
    /\ mv.pc = "command"
    /\ InRange(MoveTarget)
    /\ pos' = MoveTarget
    /\ mv' = [mv EXCEPT !.pc = "read_after", !.pre_cmd = pos, !.moved_to = MoveTarget,
                        !.cmds = Append(@, Call(MoveOp(mv.relative), mv.position))]
    /\ UNCHANGED <<zs, ce, extensions, served>>

\* after_pos = microscope.position, and the report with its Delta line
MoveStageReadAfter ==
    /\ mv.pc = "read_after"
    /\ mv' = [mv EXCEPT !.after_pos = pos, !.delta = Delta(pos, mv.before_pos),
                        !.result = "moved", !.pc = "done",
                        !.cmds = Append(@, Call("position", Unset))]
    /\ UNCHANGED <<pos, zs, ce, extensions, served>>

\* A device call of move_stage raises; nothing catches it.
MoveStageFail ==
    /\ mv.pc \in {"read_before", "command", "read_after"}
    /\ mv' = [mv EXCEPT !.pc = "failed", !.result = "exception",
                        !.cmds = Append(@, IF mv.pc = "command"
                                           THEN Call(MoveOp(mv.relative), mv.position)
                                           ELSE Call("position", Unset))]
    /\ pos' \in {pos} \cup (IF mv.pc = "command" /\ InRange(MoveTarget)
                            THEN {MoveTarget} ELSE {})
    /\ UNCHANGED <<zs, ce, extensions, served>>

\* The report or the exception goes to the framework; the frame is gone.
MoveStageReturn ==
    /\ mv.pc \in Ended
    /\ mv' = MvInit
    /\ UNCHANGED <<pos, zs, ce, extensions, served>>

\* ---- handlers: run_z_stack ----------------------------------------------
ZStackCall(serial, start_z, end_z, steps) ==
    /\ zs.pc = "idle"
    /\ serial => mv.pc = "idle"
    /\ LET step == ZStep(start_z, end_z, steps)
       IN  zs' = [ZsInit EXCEPT !.start_z = start_z, !.end_z = end_z, !.steps = steps,
                      !.z_step = step,
                      !.pc = IF step.den = 0 THEN "failed" ELSE "read_start",
                      !.failed_at = IF step.den = 0 THEN "z_step" ELSE "none",
                      !.result = IF step.den = 0 THEN "ZeroDivisionError" ELSE "none"]
    /\ UNCHANGED <<pos, mv, ce, extensions>>

\* start_pos = microscope.position.copy(); new_pos = start_pos with z = start_z
ZStackReadStart ==
    /\ zs.pc = "read_start"
    /\ zs' = [zs EXCEPT !.start_pos = pos, !.new_pos = WithZ(pos, zs.start_z),
                        !.pc = "move_start",
                        !.cmds = Append(@, Call("position", Unset))]
    /\ UNCHANGED <<pos, mv, ce, extensions, served>>

\* microscope.move(new_pos)
ZStackMoveStart ==
    /\ zs.pc = "move_start"
    /\ pos' = DeviceMove(pos, zs.new_pos)
    /\ zs' = [zs EXCEPT !.pc = IF LoopRuns(0, zs.steps) THEN "move_step" ELSE "restore",
                        !.cmds = Append(@, Call("move", zs.new_pos))]
    /\ UNCHANGED <<mv, ce, extensions, served>>

\* current_pos = new_pos with z = int(current_z)
CurrentPos == WithZ(zs.new_pos, CurrentZ(zs.start_z, zs.i, zs.z_step))

\* microscope.move(current_pos)
ZStackMoveStep ==
    /\ zs.pc = "move_step"
    /\ pos' = DeviceMove(pos, CurrentPos)
    /\ zs' = [zs EXCEPT !.pc = "read_actual",
                        !.cmds = Append(@, Call("move", CurrentPos))]
    /\ UNCHANGED <<mv, ce, extensions, served>>

\* actual_pos = microscope.position
ZStackReadActual ==
    /\ zs.pc = "read_actual"
    /\ zs' = [zs EXCEPT !.actual_pos = pos, !.pc = "grab",
                        !.cmds = Append(@, Call("position", Unset))]
    /\ UNCHANGED <<pos, mv, ce, extensions, served>>

\* image = microscope.grab_image(); captured_positions.append(...)
ZStackGrab ==
    /\ zs.pc = "grab"
    /\ zs' = [zs EXCEPT !.captured_positions =
                            Append(@, [index |-> zs.i + 1, z |-> zs.actual_pos.z]),
                        !.i = @ + 1,
                        !.pc = IF LoopRuns(zs.i + 1, zs.steps) THEN "move_step"
                               ELSE "restore",
                        !.cmds = Append(@, Call(StackCapture, Unset))]
    /\ UNCHANGED <<pos, mv, ce, extensions, served>>

\* microscope.move(start_pos)
ZStackRestore ==
    /\ zs.pc = "restore"
    /\ pos' = DeviceMove(pos, zs.start_pos)
    /\ zs' = [zs EXCEPT !.pc = "read_final",
                        !.cmds = Append(@, Call("move", zs.start_pos))]
    /\ UNCHANGED <<mv, ce, extensions, served>>

\* The report, which reads microscope.position once more.
ZStackReadFinal ==
    /\ zs.pc = "read_final"
    /\ zs' = [zs EXCEPT !.current = pos, !.result = "completed", !.pc = "done",
                        !.cmds = Append(@, Call("position", Unset))]
    /\ UNCHANGED <<pos, mv, ce, extensions, served>>

\* The device call the stack is about to make.
ZStackPending ==
    CASE zs.pc = "move_start" -> Call("move", zs.new_pos)
      [] zs.pc = "move_step" -> Call("move", CurrentPos)
      [] zs.pc = "restore" -> Call("move", zs.start_pos)
      [] zs.pc = "grab" -> Call(StackCapture, Unset)
      [] OTHER -> Call("position", Unset)

\* Variant: a failure handler that puts the stage back (the code has none).
ZStackFailRestoring ==
    /\ zs.pc \in {"read_start", "move_start", "move_step", "read_actual", "grab",
                  "restore", "read_final"}
    /\ zs' = [zs EXCEPT !.pc = "failed", !.result = "exception", !.failed_at = zs.pc,
                        !.cmds = Append(Append(@, ZStackPending),
                                        Call("move", zs.start_pos))]
    /\ pos' = IF zs.pc = "read_start" THEN pos ELSE DeviceMove(pos, zs.start_pos)
    /\ UNCHANGED <<mv, ce, extensions, served>>

\* A device call of run_z_stack raises; nothing catches it, nothing is undone.
ZStackFail ==
    /\ zs.pc \in {"read_start", "move_start", "move_step", "read_actual", "grab",
                  "restore", "read_final"}
    /\ zs' = [zs EXCEPT !.pc = "failed", !.result = "exception", !.failed_at = zs.pc,
                        !.cmds = Append(@, ZStackPending)]
    /\ pos' \in {pos} \cup (IF ZStackPending.op = "move"
                            THEN {DeviceMove(pos, ZStackPending.arg)} ELSE {})
    /\ UNCHANGED <<mv, ce, extensions, served>>

\* The report or the exception goes to the framework; the frame is gone.
ZStackReturn ==
    /\ zs.pc \in Ended
    /\ zs' = ZsInit
    /\ UNCHANGED <<pos, mv, ce, extensions, served>>

\* ---- specifications -----------------------------------------------------
InitStage ==
    /\ pos \in Positions
    /\ mv = MvInit
    /\ zs = ZsInit
    /\ ce = CeInit
    /\ extensions = [e \in {} |-> {}]
    /\ served = {}

\* The steps of the handlers on a working device.
WorkingSteps ==
    \/ MoveStageReadBefore
    \/ MoveStageCommand
    \/ MoveStageReadAfter
    \/ MoveStageReturn
    \/ ZStackReadStart
    \/ ZStackMoveStart
    \/ ZStackMoveStep
    \/ ZStackReadActual
    \/ ZStackGrab
    \/ ZStackRestore
    \/ ZStackReadFinal
    \/ ZStackReturn

\* A device call raises.
FailureSteps ==
    \/ MoveStageFail
    \/ ZStackFail

\* Requests served one at a time, as the hosting framework is expected to.
NextSeq ==
    \/ \E x \in Opt(XYRange), y \in Opt(XYRange), z \in Opt(ZRange), r \in BOOLEAN :
           MoveStageCall(TRUE, x, y, z, r) /\ UNCHANGED served
    \/ \E s \in ZRange, e \in ZRange, n \in StepCounts :
           ZStackCall(TRUE, s, e, n) /\ UNCHANGED served
    \/ WorkingSteps
    \/ FailureSteps

SpecSeq == InitStage /\ [][NextSeq]_vars

\* One move request and one stack request in flight on the one connection of
\* a working device: nothing in the adapter serialises them.  The inputs are
\* narrowed to keep the interleavings enumerable: moves of x and z, stacks of
\* at most MaxConcSteps images, each handler requested once, the stage at
\* the origin to begin with.
MaxConcSteps == 2

InitConc ==
    /\ InitStage
    /\ pos = ZeroPos

NextConc ==
    \/ /\ "move_stage" \notin served
       /\ served' = served \cup {"move_stage"}
       /\ \E x \in Opt(XYRange), z \in Opt(ZRange), r \in BOOLEAN :
              MoveStageCall(FALSE, x, None, z, r)
    \/ /\ "run_z_stack" \notin served
       /\ served' = served \cup {"run_z_stack"}
       /\ \E s \in ZRange, e \in ZRange, n \in 0..MaxConcSteps :
              ZStackCall(FALSE, s, e, n)
    \/ WorkingSteps

SpecConc == InitConc /\ [][NextConc]_vars

\* call_extension against every registry the client may have discovered.
\* A lower-case letter and its capital.
BothCases(c) ==
    {c} \cup {UpperCase[j] : j \in {i \in DOMAIN LowerCase : LowerCase[i] = c}}

\* Every spelling of the lower-case word w that differs from it in case only.
CaseVariants(w) ==
    {m \in [DOMAIN w -> UNION {BothCases(w[k]) : k \in DOMAIN w}] :
        \A k \in DOMAIN w : m[k] \in BothCases(w[k])}

Methods ==
    CaseVariants(GetWord) \cup CaseVariants(PostWord)
    \cup {<<>>, <<"p", "u", "t">>, <<"P", "U", "T">>, <<"g", "e", "t", "s">>,
          <<"d", "e", "l", "e", "t", "e">>, <<"g", "e", "t", " ">>}

ExtensionNames == KnownExtensions \cup {"org.example.missing"}

LinkNames == KnownLinks \cup {"no-such-link"}

InitExt ==
    /\ pos = ZeroPos
    /\ mv = MvInit
    /\ zs = ZsInit
    /\ ce = CeInit
    /\ extensions \in Registries
    /\ served = {}

NextExt ==
    \/ \E ext \in ExtensionNames, link \in LinkNames, method \in Methods,
          payload \in Payloads, raises \in BOOLEAN :
           CallExtension(ext, link, method, payload, raises)
    \/ CallExtensionReturn

SpecExt == InitExt /\ [][NextExt]_vars

(***************************************************************************)
(* Properties                                                               *)
(***************************************************************************)
\* The number of device calls named op in a handler's record.
CountOf(cmds, op) == Cardinality({k \in DOMAIN cmds : cmds[k].op = op})

\* The axes a move request names, and the dict that names exactly those.
GivenAxes ==
    {a \in Axes : (a = "x" /\ mv.x # None) \/ (a = "y" /\ mv.y # None)
                  \/ (a = "z" /\ mv.z # None)}

GivenValue(a) == IF a = "x" THEN mv.x[1] ELSE IF a = "y" THEN mv.y[1] ELSE mv.z[1]

\* C1: a move request with x, y and z all None, relative or not, returns the
\* validation text and makes no device call at all, so the stage stays where
\* it was when the request arrived.
C1_NoAxisRejected ==
    (mv.pc # "idle" /\ mv.x = None /\ mv.y = None /\ mv.z = None)
        => /\ mv.pc = "done"
           /\ mv.result = "no_position"
           /\ mv.cmds = <<>>
           /\ pos = mv.entry_pos

C1_Witness ==
    /\ mv.pc = "done"
    /\ mv.result = "no_position"
    /\ mv.relative
    /\ pos # ZeroPos

\* C2: a move request naming at least one axis, run alone and succeeding,
\* reports delta = after - before on every axis, sends the device a command
\* with exactly the named axes, and leaves every other axis where it was, in
\* absolute and in relative mode.
C2_DeltaAndFrame ==
    (mv.pc = "done" /\ mv.result = "moved")
        => /\ GivenAxes # {}
           /\ \A a \in Axes : mv.delta[a] = mv.after_pos[a] - mv.before_pos[a]
           /\ mv.cmds = <<Call("position", Unset),
                          Call(IF mv.relative THEN "move_rel" ELSE "move",
                               [a \in GivenAxes |-> GivenValue(a)]),
                          Call("position", Unset)>>
           /\ \A a \in Axes \ GivenAxes :
                  mv.after_pos[a] = mv.before_pos[a] /\ mv.delta[a] = 0
           /\ (mv.before_pos = ZeroPos /\ mv.x = Some(1) /\ mv.y = None
               /\ mv.z = None /\ ~mv.relative)
                  => /\ mv.after_pos = [x |-> 1, y |-> 0, z |-> 0]
                     /\ mv.delta = [x |-> 1, y |-> 0, z |-> 0]

C2_Witness ==
    /\ mv.pc = "done"
    /\ mv.result = "moved"
    /\ mv.relative
    /\ mv.x = None
    /\ mv.y = None
    /\ mv.delta.z # 0
    /\ mv.before_pos.x # 0

\* The step of a stack as the claims state it: (end - start) / (steps - 1) for
\* steps > 1, else 0; kept as a fraction.
StatedStep ==
    IF zs.steps > 1 THEN [num |-> zs.end_z - zs.start_z, den |-> zs.steps - 1]
    ELSE [num |-> 0, den |-> 1]

\* Truncation toward zero of n/d, d > 0, from the quotient's definition.
TowardZero(n, d) ==
    CHOOSE q \in (0 - (MaxZ + MaxDepth))..(MaxZ + MaxDepth) :
        IF n >= 0 THEN q * d <= n /\ n < (q + 1) * d
        ELSE (q - 1) * d < n /\ n <= q * d

\* Z of step i when the product i * step is truncated and then added to start.
StatedZ(i) == zs.start_z + TowardZero(i * StatedStep.num, StatedStep.den)

\* Z of step i when the sum start + i * step is truncated.
SumZ(i) == TowardZero(zs.start_z * StatedStep.den + i * StatedStep.num, StatedStep.den)

\* The device calls of a stack that ran to its report, with Z(i) the Z of step i.
StackCalls(Z(_)) ==
    LET StepCalls(i) == <<Call("move", [zs.start_pos EXCEPT !.z = Z(i)]),
                          Call("position", Unset), Call("grab_image", Unset)>>
        Loop[n \in 0..MaxSteps + 1] ==
            IF n = 0 THEN <<>> ELSE Loop[n - 1] \o StepCalls(n - 1)
        n == IF zs.steps > 0 THEN zs.steps ELSE 0
    IN  <<Call("position", Unset),
          Call("move", [zs.start_pos EXCEPT !.z = zs.start_z])>>
        \o Loop[n]
        \o <<Call("move", zs.start_pos), Call("position", Unset)>>

\* C3 as stated: the i-th capture follows a move to start_z + trunc(i * step).
C3_AsStated ==
    zs.pc = "read_actual" => zs.cmds[Len(zs.cmds)].arg.z = StatedZ(zs.i)

\* C3 (amended): a stack with steps >= 1 that completes captures exactly
\* `steps` images, all with grab_image, the i-th after a move to
\* Z = trunc(start_z + i * step): the sum is truncated toward zero, not the
\* product.  The first capture is at start_z; a one-step stack captures once
\* at start_z and divides by nothing; the last capture is at end_z when
\* steps - 1 divides end_z - start_z.
C3_StackTargets ==
    /\ zs.result # "ZeroDivisionError"
    /\ zs.pc = "read_actual"
           => zs.cmds[Len(zs.cmds)] = Call("move", [zs.start_pos EXCEPT !.z = SumZ(zs.i)])
    /\ (zs.pc = "done" /\ zs.steps >= 1)
           => /\ Len(zs.captured_positions) = zs.steps
              /\ CountOf(zs.cmds, "grab_image") = zs.steps
              /\ CountOf(zs.cmds, "capture_image") = 0
              /\ zs.cmds = StackCalls(SumZ)
              /\ \A k \in 1..zs.steps :
                     zs.captured_positions[k] = [index |-> k, z |-> SumZ(k - 1)]
              /\ zs.captured_positions[1].z = zs.start_z
              /\ (zs.steps > 1 /\ (zs.end_z - zs.start_z) % (zs.steps - 1) = 0)
                     => zs.captured_positions[zs.steps].z = zs.end_z

C3_Witness ==
    /\ zs.pc = "done"
    /\ zs.steps = 3
    /\ zs.start_z = 1
    /\ zs.end_z = 0
    /\ zs.captured_positions[2].z = 0

\* C4: a stack that runs alone and completes leaves the stage, on all three
\* axes, at the position saved when it began; every move it issues carries
\* the saved x and y, so x and y never leave their pre-stack values while
\* the stack runs.
C4_StackRestores ==
    /\ zs.pc = "done" => (pos = zs.start_pos /\ zs.current = zs.start_pos)
    /\ (zs.pc \notin {"idle", "read_start"} /\ zs.failed_at \notin {"read_start", "z_step"})
           => /\ pos.x = zs.start_pos.x
              /\ pos.y = zs.start_pos.y
              /\ \A k \in DOMAIN zs.cmds :
                     zs.cmds[k].op = "move"
                         => /\ zs.cmds[k].arg.x = zs.start_pos.x
                            /\ zs.cmds[k].arg.y = zs.start_pos.y

C4_Witness ==
    /\ zs.pc = "done"
    /\ zs.steps >= 2
    /\ zs.start_pos.z # zs.start_z
    /\ zs.start_pos.z # zs.end_z
    /\ zs.start_pos.x = 1
    /\ zs.start_pos.y = 1

\* The device calls of the stack loop.
LoopCalls == {"move_step", "read_actual", "grab"}

\* C8: when a device call fails after the move to start Z succeeded, the
\* exception reaches the caller and no restoring move is issued: the stack
\* has issued the move to start Z and the moves of steps 0..i, nothing more.
C8_NoRestoreOnFailure ==
    (zs.pc = "failed" /\ zs.failed_at \in LoopCalls)
        => /\ zs.result = "exception"
           /\ CountOf(zs.cmds, "move") = 1 + (zs.i + 1)
           /\ \A k \in DOMAIN zs.cmds :
                  (k > 2 /\ zs.cmds[k].op = "move")
                      => \E i \in 0..zs.i : zs.cmds[k].arg.z = SumZ(i)

C8_Witness ==
    /\ zs.pc = "failed"
    /\ zs.failed_at = "grab"
    /\ zs.i = 1
    /\ pos.z # zs.start_pos.z
    /\ pos.z # zs.start_z

\* C10: a stack with steps <= 0, run alone on a working device, is not
\* rejected and does not fail: it captures nothing, reports no Z positions,
\* and still issues exactly two moves, to (saved x, saved y, start_z) and back
\* to the saved position.
C10_EmptyStackStillMoves ==
    zs.steps <= 0
        => /\ zs.failed_at # "z_step"
           /\ zs.pc \notin {"move_step", "read_actual", "grab"}
           /\ zs.pc = "restore" => pos = [zs.start_pos EXCEPT !.z = zs.start_z]
           /\ zs.pc = "done"
                  => /\ zs.result = "completed"
                     /\ zs.captured_positions = <<>>
                     /\ zs.cmds = <<Call("position", Unset),
                                    Call("move", [zs.start_pos EXCEPT !.z = zs.start_z]),
                                    Call("move", zs.start_pos),
                                    Call("position", Unset)>>
                     /\ pos = zs.start_pos

C10_Witness ==
    /\ zs.pc = "done"
    /\ zs.steps = 0 - 1
    /\ zs.start_pos.z # zs.start_z
    /\ zs.captured_positions = <<>>

\* The request call_extension has answered.
Answered == ce.result # "none"

KnownExtension == ce.extension_name \in DOMAIN extensions

KnownLink == KnownExtension /\ ce.link_name \in extensions[ce.extension_name]

\* Spelled like word w up to the case of its letters.
SpelledLike(m, w) == m \in CaseVariants(w)

\* C5: an extension id missing from the registry is answered with a failure
\* listing exactly the registry's ids, whatever the link and the method; a
\* known extension with an unknown link is answered with a failure listing
\* exactly that extension's links, whatever the method; neither invokes a
\* link endpoint.
C5_ValidationOrder ==
    Answered
        => /\ ~KnownExtension
                  => /\ ce.result = "extension_not_found"
                     /\ ce.listing = DOMAIN extensions
                     /\ ce.calls = <<>>
           /\ (KnownExtension /\ ~KnownLink)
                  => /\ ce.result = "link_not_found"
                     /\ ce.listing = extensions[ce.extension_name]
                     /\ ce.calls = <<>>

C5_Witness ==
    /\ ce.result = "extension_not_found"
    /\ ce.method = <<"p", "u", "t">>
    /\ ce.link_name = "no-such-link"
    /\ Cardinality(ce.listing) = 1

\* C6: a method that is neither "get" nor "post" up to case is rejected with
\* a failure text and no endpoint is invoked, for every extension id and link
\* name; any spelling of get or post that differs in case only is dispatched
\* like "get" or "post".
C6_MethodSelector ==
    Answered
        => /\ (~SpelledLike(ce.method, GetWord) /\ ~SpelledLike(ce.method, PostWord))
                  => /\ ce.result \in {"extension_not_found", "link_not_found",
                                       "unknown_method"}
                     /\ ce.calls = <<>>
                     /\ KnownLink => ce.result = "unknown_method"
           /\ (KnownLink /\ SpelledLike(ce.method, GetWord))
                  => /\ Len(ce.calls) = 1
                     /\ ce.calls[1].op = "get"
           /\ (KnownLink /\ SpelledLike(ce.method, PostWord))
                  => /\ Len(ce.calls) = 1
                     /\ ce.calls[1].op = "post_json"

C6_Witness ==
    /\ ce.result = "unknown_method"
    /\ ce.method = <<"P", "U", "T">>
    /\ ce.payload # None

\* C7: once the extension and link checks pass, an exception raised by the
\* endpoint (get, or post_json with the given payload, or with an empty one
\* when none is given) is turned into a failure text: the handler returns
\* normally and the exception never reaches the caller.
C7_DispatchErrorsCaught ==
    Answered
        => /\ ce.result # "exception"
           /\ ce.endpoint_raised => (KnownLink /\ ce.result = "error_calling_extension")
           /\ \A k \in DOMAIN ce.calls :
                  /\ ce.calls[k].ext = ce.extension_name
                  /\ ce.calls[k].link = ce.link_name
                  /\ ce.calls[k].op = "post_json"
                         => ce.calls[k].arg = (IF ce.payload = None THEN Unset
                                               ELSE ce.payload[1])

C7_Witness ==
    /\ ce.endpoint_raised
    /\ ce.result = "error_calling_extension"
    /\ ce.payload = None
    /\ Len(ce.calls) = 1
    /\ ce.calls[1].op = "post_json"
    /\ ce.calls[1].arg = Unset

\* C9: nothing serialises two requests on the shared connection.  Whatever
\* point the other handler has reached, a move request is accepted and each
\* pending device call of move_stage and of run_z_stack can be the next call
\* on the connection; so a stack image can be taken off its target, the
\* stack's restoring move can undo a concurrent move, and move_stage can
\* report a delta that is not its own displacement (C9_Witness).
C9_NoMutualExclusion ==
    /\ mv.pc = "idle"
           => ENABLED (MoveStageCall(FALSE, Some(1), None, None, FALSE) /\ UNCHANGED served)
    /\ zs.pc = "idle"
           => ENABLED (ZStackCall(FALSE, 0, 0, 1) /\ UNCHANGED served)
    /\ mv.pc = "read_before" => ENABLED MoveStageReadBefore
    /\ (mv.pc = "command" /\ InRange(MoveTarget)) => ENABLED MoveStageCommand
    /\ mv.pc = "read_after" => ENABLED MoveStageReadAfter
    /\ zs.pc = "read_start" => ENABLED ZStackReadStart
    /\ zs.pc = "move_start" => ENABLED ZStackMoveStart
    /\ zs.pc = "move_step" => ENABLED ZStackMoveStep
    /\ zs.pc = "read_actual" => ENABLED ZStackReadActual
    /\ zs.pc = "grab" => ENABLED ZStackGrab
    /\ zs.pc = "restore" => ENABLED ZStackRestore
    /\ zs.pc = "read_final" => ENABLED ZStackReadFinal

\* (a) an image recorded off the step's target, (b) the restoring move put the
\* stage back over the concurrent move's effect, (c) the reported delta is
\* not the displacement move_stage's own command produced.
C9_Witness ==
    /\ zs.pc = "done"
    /\ mv.pc = "done"
    /\ mv.result = "moved"
    /\ \E k \in DOMAIN zs.captured_positions :
           zs.captured_positions[k].z # SumZ(k - 1)
    /\ pos = zs.start_pos
    /\ pos # mv.moved_to
    /\ mv.after_pos = mv.moved_to
    /\ mv.delta # [a \in Axes |-> mv.moved_to[a] - mv.pre_cmd[a]]

====
